---------------------------- MODULE Spec2Model ----------------------------
(***************************************************************************)
(* Model of the BHT module-handbook extractor (src/pdfextract/extract.py). *)
(*                                                                         *)
(* Three specifications share the variables below:                         *)
(*   Spec          a run of extract_competencies over a document           *)
(*   SpecSelector  one call of get_selector_for_element_text               *)
(*   SpecSplit     one call of split_sentences, statement by statement     *)
(*                                                                         *)
(* A text is a sequence of one-character strings, so that substring tests, *)
(* look-behinds, strip() and re.sub() are computed character by character. *)
(* Coordinates are integers (the code parses them with float()).           *)
(***************************************************************************)
EXTENDS Integers, Sequences, FiniteSets

VARIABLES
    pc,          \* position of the running function
    page_count,  \* get_page_count(pdf)
    i,           \* loop variable of extract_competencies (next page index)
    page,        \* fragments of the page the loop is at (LTTextLineHorizontal)
    selectors,   \* the selectors collected for the current page
    results,     \* the result list of extract_competencies
    stderr,      \* what eprint has written
    call,        \* arguments of a get_selector_for_element_text call
    ret,         \* its outcome
    text,        \* argument of split_sentences
    sentences    \* local variable `sentences` of split_sentences

vars == <<pc, page_count, i, page, selectors, results, stderr, call, ret, text, sentences>>

None == "None"

(***************************************************************************)
(* Bounds of the model.                                                    *)
(***************************************************************************)
MaxTextLen == 5
MaxPages == 3

(***************************************************************************)
(* Characters.                                                             *)
(***************************************************************************)
UpperChars ==
    {"A", "B", "C", "D", "E", "F", "G", "H", "I", "J", "K", "L", "M",
     "N", "O", "P", "Q", "R", "S", "T", "U", "V", "W", "X", "Y", "Z"}

LowerChars ==
    {"a", "b", "c", "d", "e", "f", "g", "h", "i", "j", "k", "l", "m",
     "n", "o", "p", "q", "r", "s", "t", "u", "v", "w", "x", "y", "z"}

DigitChars == {"0", "1", "2", "3", "4", "5", "6", "7", "8", "9"}

\* regex class \s, and what str.strip() removes
IsSpace(c) == c \in {" ", "\t", "\n", "\r"}

\* regex class \w
IsWord(c) == c \in UpperChars \cup LowerChars \cup DigitChars \cup {"_"}

\* regex `.` (no DOTALL flag): any character but a newline
IsAnyChar(c) == c # "\n"

SetMin(S) == CHOOSE x \in S : \A y \in S : x <= y
SetMax(S) == CHOOSE x \in S : \A y \in S : x >= y

(***************************************************************************)
(* split_sentences, src/pdfextract/extract.py:282-304.                     *)
(***************************************************************************)
Abbreviations ==
    { <<"e", "t", "c", ".">>, <<"b", "z", "w", ".">>,
      <<"u", "s", "w", ".">>, <<"u", "v", "m", ".">> }

\* (?<!\w\.\w.) at position p: the four characters before p
BehindLetterDotLetterAny(t, p) ==
    /\ p - 4 >= 1
    /\ IsWord(t[p - 4])
    /\ t[p - 3] = "."
    /\ IsWord(t[p - 2])
    /\ IsAnyChar(t[p - 1])

\* (?<!etc\.|bzw\.|usw\.|uvm\.)
BehindAbbreviation(t, p) ==
    /\ p - 4 >= 1
    /\ SubSeq(t, p - 4, p - 1) \in Abbreviations

\* (?<![A-Z][a-z]\.)
BehindUpperLowerDot(t, p) ==
    /\ p - 3 >= 1
    /\ t[p - 3] \in UpperChars
    /\ t[p - 2] \in LowerChars
    /\ t[p - 1] = "."

\* (?<![0-9]\.)
BehindDigitDot(t, p) ==
    /\ p - 2 >= 1
    /\ t[p - 2] \in DigitChars
    /\ t[p - 1] = "."

\* (?<=\.|\?|\!)
BehindTerminator(t, p) ==
    /\ p - 1 >= 1
    /\ t[p - 1] \in {".", "?", "!"}

\* split_pattern matches the single character at position p
SplitPatternMatches(t, p) ==
    /\ ~BehindLetterDotLetterAny(t, p)
    /\ ~BehindAbbreviation(t, p)
    /\ ~BehindUpperLowerDot(t, p)
    /\ ~BehindDigitDot(t, p)
    /\ BehindTerminator(t, p)
    /\ IsSpace(t[p])

\* re.split: the pieces between the matches, scanned left to right;
\* `from` is where the current piece starts, p the scan position
RECURSIVE ReSplitFrom(_, _, _)
ReSplitFrom(t, from, p) ==
    IF p > Len(t) THEN << SubSeq(t, from, Len(t)) >>
    ELSE IF SplitPatternMatches(t, p)
         THEN << SubSeq(t, from, p - 1) >> \o ReSplitFrom(t, p + 1, p + 1)
         ELSE ReSplitFrom(t, from, p + 1)

\* a split that takes the terminator into the separator ([.?!]\s)
RECURSIVE ReSplitConsumingFrom(_, _, _)
ReSplitConsumingFrom(t, from, p) ==
    IF p > Len(t) THEN << SubSeq(t, from, Len(t)) >>
    ELSE IF SplitPatternMatches(t, p)
         THEN << SubSeq(t, from, p - 2) >> \o ReSplitConsumingFrom(t, p + 1, p + 1)
         ELSE ReSplitConsumingFrom(t, from, p + 1)

ReSplitConsuming(t) == ReSplitConsumingFrom(t, 1, 1)

\* re.split(split_pattern, text)
ReSplit(t) == ReSplitFrom(t, 1, 1)

\* str.strip()
Strip(s) ==
    LET keep == {k \in 1..Len(s) : ~IsSpace(s[k])}
    IN  IF keep = {} THEN << >> ELSE SubSeq(s, SetMin(keep), SetMax(keep))

\* (?<!\s)(- ) matches at position k of s
HyphenPatternMatches(s, k) ==
    /\ k + 1 <= Len(s)
    /\ s[k] = "-"
    /\ s[k + 1] = " "
    /\ (k = 1 \/ ~IsSpace(s[k - 1]))

\* re.sub(r"(?<!\s)(- )", "", sentence): left to right, matches removed
RECURSIVE ReSubHyphenFrom(_, _)
ReSubHyphenFrom(s, k) ==
    IF k > Len(s) THEN << >>
    ELSE IF HyphenPatternMatches(s, k)
         THEN ReSubHyphenFrom(s, k + 2)
         ELSE << s[k] >> \o ReSubHyphenFrom(s, k + 1)

ReSubHyphen(s) == ReSubHyphenFrom(s, 1)

\* the second strip left out, as in src/extract.py:164-166
StripAgainOmitted(s) == s

\* line 302: sentence.strip() after the dehyphenation
StripAgain(s) == Strip(s)

\* line 298: [sentence.strip() for sentence in sentences]
StripEach(ss) == [k \in 1..Len(ss) |-> Strip(ss[k])]

\* line 301: [re.sub(...) for sentence in sentences]
ReSubHyphenEach(ss) == [k \in 1..Len(ss) |-> ReSubHyphen(ss[k])]

\* line 302: [sentence.strip() for sentence in sentences]
StripAgainEach(ss) == [k \in 1..Len(ss) |-> StripAgain(ss[k])]

\* the whole function
split_sentences(t) == StripAgainEach(ReSubHyphenEach(StripEach(ReSplit(t))))

(***************************************************************************)
(* Input texts of SpecSplit: every text of at most MaxTextLen characters   *)
(* over TextChars, and the texts the documentation names.                  *)
(***************************************************************************)
TextChars ==
    { <<"B">>, <<"a">>, <<"3">>, <<".">>, <<"!">>, <<" ">>, <<"\n">>, <<"-">> }

RECURSIVE TextsUpTo(_)
TextsUpTo(n) ==
    IF n = 0 THEN { << >> }
    ELSE LET shorter == TextsUpTo(n - 1)
         IN  shorter \cup { s \o ch : s \in shorter, ch \in TextChars }

TextAbbreviation ==
    <<"D", "a", "s", " ", "i", "s", "t", " ", "z", ".", "B", ".", " ", "g", "u", "t", ".",
      " ", "U", "n", "d", " ", "d", "a", "s", " ", "a", "u", "c", "h", ".">>

TextNumber ==
    <<"S", "i", "e", "h", "e", " ", "K", "a", "p", "i", "t", "e", "l", " ", "3", ".", " ",
      "D", "a", "s", " ", "i", "s", "t", " ", "w", "i", "c", "h", "t", "i", "g", ".">>

TextHyphen ==
    <<"D", "i", "e", "s", "e", " ", "F", "e", "r", "-", " ", "t", "i", "g", "k", "e", "i",
      "t", " ", "i", "s", "t", " ", "w", "i", "c", "h", "t", "i", "g", ".">>

TextDehyphenated ==
    <<"D", "i", "e", "s", "e", " ", "F", "e", "r", "t", "i", "g", "k", "e", "i",
      "t", " ", "i", "s", "t", " ", "w", "i", "c", "h", "t", "i", "g", ".">>

ExampleTexts ==
    { TextAbbreviation, TextNumber, TextHyphen,
      <<"a", " ", "e", "t", "c", ".", " ", "b">>,
      <<"a", " ", "b", "z", "w", ".", " ", "b">>,
      <<"a", " ", "u", "s", "w", ".", " ", "b">>,
      <<"a", " ", "u", "v", "m", ".", " ", "b">>,
      <<"a", ".", "b", "!", " ", "c">>,
      <<"a", ".", "b", "?", " ", "c">>,
      <<"D", "r", ".", " ", "B", "a", "?", " ", "a">>,
      <<"x", ".", "-", " ", " ", "b">>,
      <<"a", ".", "-", " ", "b", ".", " ", "c">> }

InputTexts == TextsUpTo(MaxTextLen) \cup ExampleTexts

(***************************************************************************)
(* SpecSplit: split_sentences(text), one action per statement.             *)
(***************************************************************************)
IdleRun ==
    /\ page_count = 0
    /\ i = 0
    /\ page = << >>
    /\ selectors = << >>
    /\ results = << >>
    /\ stderr = << >>

IdleCall == call = None /\ ret = None

IdleSplit == text = << >> /\ sentences = << >>

RunVars == <<page_count, i, page, selectors, results, stderr>>
CallVars == <<call, ret>>
SplitVars == <<text, sentences>>

InitSplit ==
    /\ pc = "split"
    /\ text \in InputTexts
    /\ sentences = << >>
    /\ IdleRun
    /\ IdleCall

\* line 297
SplitStatement ==
    /\ pc = "split"
    /\ sentences' = ReSplit(text)
    /\ pc' = "strip"
    /\ UNCHANGED <<text, RunVars, CallVars>>

\* line 298
StripStatement ==
    /\ pc = "strip"
    /\ sentences' = StripEach(sentences)
    /\ pc' = "dehyphenate"
    /\ UNCHANGED <<text, RunVars, CallVars>>

\* line 301
DehyphenateStatement ==
    /\ pc = "dehyphenate"
    /\ sentences' = ReSubHyphenEach(sentences)
    /\ pc' = "strip_again"
    /\ UNCHANGED <<text, RunVars, CallVars>>

\* lines 302-304
StripAgainStatement ==
    /\ pc = "strip_again"
    /\ sentences' = StripAgainEach(sentences)
    /\ pc' = "split_returned"
    /\ UNCHANGED <<text, RunVars, CallVars>>

NextSplit ==
    \/ SplitStatement
    \/ StripStatement
    \/ DehyphenateStatement
    \/ StripAgainStatement

SpecSplit == InitSplit /\ [][NextSplit]_vars


(***************************************************************************)
(* Claims about split_sentences (checked under SpecSplit).                 *)
(***************************************************************************)
\* the pieces of t when it is cut at the positions in P (each cut position
\* is dropped), left to right
RECURSIVE CutFrom(_, _, _, _)
CutFrom(t, P, from, p) ==
    IF p > Len(t) THEN << SubSeq(t, from, Len(t)) >>
    ELSE IF p \in P
         THEN << SubSeq(t, from, p - 1) >> \o CutFrom(t, P, p + 1, p + 1)
         ELSE CutFrom(t, P, from, p + 1)

\* the abbreviation patterns as the documentation lists them; the last one
\* is letter, dot, letter, dot
DocumentedAbbreviationEndsAt(t, p) ==
    \/ p - 3 >= 1 /\ t[p - 3] \in UpperChars /\ t[p - 2] \in LowerChars /\ t[p - 1] = "."
    \/ p - 2 >= 1 /\ t[p - 2] \in DigitChars /\ t[p - 1] = "."
    \/ p - 4 >= 1 /\ SubSeq(t, p - 4, p - 1) \in Abbreviations
    \/ p - 4 >= 1 /\ IsWord(t[p - 4]) /\ t[p - 3] = "." /\ IsWord(t[p - 2]) /\ t[p - 1] = "."

DocumentedSplitPoints(t) ==
    { p \in 2..Len(t) :
        /\ IsSpace(t[p])
        /\ t[p - 1] \in {".", "!", "?"}
        /\ ~DocumentedAbbreviationEndsAt(t, p) }

\* C7: the text is split at a whitespace character exactly when it follows
\* '.', '!' or '?' and that terminator does not end one of the listed
\* abbreviation patterns (upper+lower+period, digit+period, etc./bzw./usw./
\* uvm., letter-dot-letter-dot).
C7_SplitExactlyAtDocumentedPoints ==
    pc = "strip" => sentences = CutFrom(text, DocumentedSplitPoints(text), 1, 1)

\* " ".join(sentences)
RECURSIVE JoinSpace(_)
JoinSpace(ss) ==
    IF Len(ss) = 0 THEN << >>
    ELSE IF Len(ss) = 1 THEN ss[1]
    ELSE ss[1] \o << " " >> \o JoinSpace(Tail(ss))

\* C8 as stated: for every text, splitting the sentences rejoined with one
\* space gives the same sentences again.
C8_IdempotentUnderRejoining ==
    pc = "split_returned" => split_sentences(JoinSpace(sentences)) = sentences

\* the dehyphenation finds nothing to remove in the sentences of t
DehyphenationRemovesNothing(t) ==
    LET stripped == StripEach(ReSplit(t))
    IN  ReSubHyphenEach(stripped) = stripped

\* C8 amended: for every text in whose sentences the dehyphenation removes
\* nothing, splitting the sentences rejoined with one space gives the same
\* sentences again.
C8_IdempotentWithoutDehyphenation ==
    (pc = "split_returned" /\ DehyphenationRemovesNothing(text))
        => split_sentences(JoinSpace(sentences)) = sentences

\* a text of several sentences that rejoining normalises
C8_Witness ==
    /\ pc = "split_returned"
    /\ DehyphenationRemovesNothing(text)
    /\ Len(sentences) >= 2
    /\ \A k \in 1..Len(sentences) : Len(sentences[k]) > 0
    /\ JoinSpace(sentences) # text

\* a hyphen followed by a space, the hyphen not preceded by whitespace
DocumentedHyphenAt(s, k) ==
    /\ k >= 1
    /\ k + 1 <= Len(s)
    /\ s[k] = "-"
    /\ s[k + 1] = " "
    /\ (k > 1 => ~IsSpace(s[k - 1]))

\* s without every such hyphen and its space
WithoutDocumentedHyphens(s) ==
    LET kept == { k \in 1..Len(s) :
                    ~DocumentedHyphenAt(s, k) /\ ~DocumentedHyphenAt(s, k - 1) }
        nth(j) == CHOOSE k \in kept : Cardinality({ m \in kept : m <= k }) = j
    IN  [j \in 1..Cardinality(kept) |-> s[nth(j)]]

NoOuterWhitespace(s) ==
    Len(s) > 0 => (~IsSpace(s[1]) /\ ~IsSpace(s[Len(s)]))

Fragment(t, x0, y0, x1, y1) == [text |-> t, x0 |-> x0, y0 |-> y0, x1 |-> x1, y1 |-> y1]

Point(x, y) == [x |-> x, y |-> y]

Modulnummer == <<"M", "o", "d", "u", "l", "n", "u", "m", "m", "e", "r">>
Titel == <<"T", "i", "t", "e", "l">>
Leistungspunkte ==
    <<"L", "e", "i", "s", "t", "u", "n", "g", "s", "p", "u", "n", "k", "t", "e">>
Credits == <<"C", "r", "e", "d", "i", "t", "s">>
LernzieleKompetenzenSpaced ==
    <<"L", "e", "r", "n", "z", "i", "e", "l", "e", " ", "/", " ",
      "K", "o", "m", "p", "e", "t", "e", "n", "z", "e", "n">>
LernzieleKompetenzen ==
    <<"L", "e", "r", "n", "z", "i", "e", "l", "e", "/",
      "K", "o", "m", "p", "e", "t", "e", "n", "z", "e", "n">>
Voraussetzungen ==
    <<"V", "o", "r", "a", "u", "s", "s", "e", "t", "z", "u", "n", "g", "e", "n">>
Niveaustufe == <<"N", "i", "v", "e", "a", "u", "s", "t", "u", "f", "e">>

\* :contains("sub"): sub occurs in t
Contains(t, sub) ==
    \E k \in 0..(Len(t) - Len(sub)) : SubSeq(t, k + 1, k + Len(sub)) = sub

\* pdf.pq('LTPage[page_index=...] LTTextLineHorizontal:contains("d")')
QueryContains(pg, d) == SelectSeq(pg, LAMBDA f : Contains(f.text, d))

\* only the first candidate is tried
FirstDescriptorOnly(pg, ds, k) ==
    [descriptor |-> ds[1], element |-> QueryContains(pg, ds[1])]

\* the loops of lines 142-145 and 150-153 from candidate k on: the loop
\* variable and the last query result when the loop ends
RECURSIVE DescriptorLoop(_, _, _)
DescriptorLoop(pg, ds, k) ==
    LET element == QueryContains(pg, ds[k])
    IN  IF Len(element) >= 1 \/ k = Len(ds)
        THEN [descriptor |-> ds[k], element |-> element]
        ELSE DescriptorLoop(pg, ds, k + 1)

\* element.attr(name): the attribute of the first matched element
Attr(element, name) == element[1][name]

\* str.lower() on the letters A-Z
LowerOf(c) ==
    LET upper == <<"A", "B", "C", "D", "E", "F", "G", "H", "I", "J", "K", "L", "M",
                   "N", "O", "P", "Q", "R", "S", "T", "U", "V", "W", "X", "Y", "Z">>
        lower == <<"a", "b", "c", "d", "e", "f", "g", "h", "i", "j", "k", "l", "m",
                   "n", "o", "p", "q", "r", "s", "t", "u", "v", "w", "x", "y", "z">>
    IN  IF c \in UpperChars
        THEN lower[CHOOSE k \in 1..26 : upper[k] = c]
        ELSE c

Lower(t) == [k \in 1..Len(t) |-> LowerOf(t[k])]

\* the box taken from the label alone
ValueCoordsLabelOnly(label, underlying, deviations) ==
    << Point(Attr(label, "x0") + deviations[1].x, Attr(label, "y0") + deviations[1].y),
       Point(Attr(label, "x0") + deviations[2].x, Attr(label, "y1") + deviations[2].y) >>

\* lines 158-167: value_coords
ValueCoords(label, underlying, deviations) ==
    << Point(Attr(label, "x0") + deviations[1].x, Attr(underlying, "y1") + deviations[1].y),
       Point(Attr(label, "x0") + deviations[2].x, Attr(label, "y1") + deviations[2].y) >>

\* the function: either the ValueError it raises or the tuple it returns
\* (the selector string is kept as the four numbers of its in_bbox(...))
get_selector_for_element_text(pg, page_index, descriptors, underlying_descriptors, value_deviations, desc) ==
    LET found == DescriptorLoop(pg, descriptors, 1)
        under == DescriptorLoop(pg, underlying_descriptors, 1)
    IN  IF Len(found.element) < 1
        THEN [raised |-> TRUE, what |-> "Descriptor",
              descriptor |-> found.descriptor, page |-> page_index + 1]
        ELSE IF Len(under.element) < 1
        THEN [raised |-> TRUE, what |-> "Underlaying descriptor",
              descriptor |-> under.descriptor, page |-> page_index + 1]
        ELSE LET value_coords == ValueCoords(found.element, under.element, value_deviations)
             IN  [raised |-> FALSE,
                  desc |-> IF desc = None THEN Lower(found.descriptor) ELSE desc,
                  in_bbox |-> << value_coords[1].x, value_coords[1].y,
                                 value_coords[2].x, value_coords[2].y >>]

(***************************************************************************)
(* SpecSelector: one call of get_selector_for_element_text on a page made  *)
(* of at most MaxFragments fragments of a pool.                            *)
(***************************************************************************)
MaxFragments == 3

FragmentPool ==
    { Fragment(LernzieleKompetenzenSpaced, 10, 100, 40, 110),
      Fragment(LernzieleKompetenzen, 12, 70, 42, 82),
      Fragment(Voraussetzungen, 10, 90, 40, 95),
      Fragment(Voraussetzungen \o <<":", " ", "k", "e", "i", "n", "e">>, 15, 60, 48, 66),
      Fragment(Leistungspunkte, 11, 120, 41, 130),
      Fragment(<<"5", " ">> \o Credits, 14, 118, 39, 127),
      Fragment(Titel, 10, 140, 40, 150),
      Fragment(Modulnummer, 13, 160, 43, 171),
      Fragment(Niveaustufe, 16, 200, 46, 210) }

\* the sequences without repetition of at most n fragments of the pool
RECURSIVE PagesUpTo(_)
PagesUpTo(n) ==
    IF n = 0 THEN { << >> }
    ELSE LET shorter == PagesUpTo(n - 1)
         IN  shorter \cup
             { Append(pg, f) : pg \in shorter,
                               f \in FragmentPool }

NoRepetition(pg) == \A j, k \in 1..Len(pg) : j # k => pg[j] # pg[k]

SelectorPages == { pg \in PagesUpTo(MaxFragments) : NoRepetition(pg) }

\* the candidate lists of lines 199, 206, 212 and 218, and two reordered
DescriptorPairs ==
    { << <<Modulnummer>>, <<Titel>> >>,
      << <<Titel>>, <<Leistungspunkte, Credits>> >>,
      << <<LernzieleKompetenzenSpaced, LernzieleKompetenzen>>, <<Voraussetzungen>> >>,
      << <<Voraussetzungen>>, <<Niveaustufe>> >>,
      << <<Credits, Leistungspunkte>>, <<LernzieleKompetenzen, LernzieleKompetenzenSpaced>> >>,
      << <<Leistungspunkte, Credits>>, <<Voraussetzungen>> >> }

DeviationPairs ==
    { << Point(120, 0), Point(490, 1) >>,
      << Point(0, 0), Point(0, 0) >>,
      << Point(-5, 3), Point(7, -2) >> }

InitSelector ==
    /\ pc = "selector_call"
    /\ \E pg \in SelectorPages, ds \in DescriptorPairs, dev \in DeviationPairs,
          d \in {None, "value"}, idx \in 0..1 :
         call = [page |-> pg, page_index |-> idx, descriptors |-> ds[1],
                 underlying_descriptors |-> ds[2], value_deviations |-> dev, desc |-> d]
    /\ ret = None
    /\ IdleRun
    /\ IdleSplit

SelectorOutcome ==
    get_selector_for_element_text(call.page, call.page_index, call.descriptors,
                                  call.underlying_descriptors, call.value_deviations,
                                  call.desc)

\* line 171
SelectorReturns ==
    /\ pc = "selector_call"
    /\ ~SelectorOutcome.raised
    /\ ret' = SelectorOutcome
    /\ pc' = "selector_returned"
    /\ UNCHANGED <<call, RunVars, SplitVars>>

\* lines 148 and 156
SelectorRaises ==
    /\ pc = "selector_call"
    /\ SelectorOutcome.raised
    /\ ret' = SelectorOutcome
    /\ pc' = "selector_raised"
    /\ UNCHANGED <<call, RunVars, SplitVars>>

NextSelector == SelectorReturns \/ SelectorRaises

SpecSelector == InitSelector /\ [][NextSelector]_vars


(***************************************************************************)
(* Claims about get_selector_for_element_text (checked under SpecSelector).*)
(***************************************************************************)
SomeFragmentContains(pg, d) == \E j \in 1..Len(pg) : Contains(pg[j].text, d)

AnyCandidateMatches(pg, ds) == \E k \in 1..Len(ds) : SomeFragmentContains(pg, ds[k])

\* the first candidate, in the given order, that some fragment contains
FirstMatchingCandidate(pg, ds) ==
    ds[SetMin({ k \in 1..Len(ds) : SomeFragmentContains(pg, ds[k]) })]

\* the first fragment of the page, in document order, containing d
FirstFragmentContaining(pg, d) ==
    pg[SetMin({ j \in 1..Len(pg) : Contains(pg[j].text, d) })]

ExpectedFragment(pg, ds) == FirstFragmentContaining(pg, FirstMatchingCandidate(pg, ds))

\* C5: the candidates are tried in their order as substring matches; the
\* match of the first candidate with a matching fragment is used, also when
\* only a later candidate matches; resolution of a list fails (ValueError)
\* only when no candidate of that list matches.
C5_FirstMatchingCandidateWins ==
    pc \in {"selector_returned", "selector_raised"} =>
        LET labelFound == AnyCandidateMatches(call.page, call.descriptors)
            underFound == AnyCandidateMatches(call.page, call.underlying_descriptors)
        IN  /\ pc = "selector_raised" <=> ~(labelFound /\ underFound)
            /\ pc = "selector_raised" =>
                 /\ ret.raised
                 /\ ret.what = IF labelFound THEN "Underlaying descriptor" ELSE "Descriptor"
                 /\ ret.page = call.page_index + 1
            /\ pc = "selector_returned" =>
                 /\ ret.in_bbox[4] - call.value_deviations[2].y
                      = ExpectedFragment(call.page, call.descriptors).y1
                 /\ ret.in_bbox[2] - call.value_deviations[1].y
                      = ExpectedFragment(call.page, call.underlying_descriptors).y1
                 /\ call.desc = None =>
                      ret.desc = Lower(FirstMatchingCandidate(call.page, call.descriptors))
                 /\ call.desc # None => ret.desc = call.desc

\* only the second candidate of the label list matches, and the call returns
C5_Witness ==
    /\ pc = "selector_returned"
    /\ Len(call.descriptors) = 2
    /\ ~SomeFragmentContains(call.page, call.descriptors[1])
    /\ SomeFragmentContains(call.page, call.descriptors[2])

\* C6: the box has lower-left (label.x0 + start.x, terminator.y1 + start.y)
\* and upper-right (label.x0 + end.x, label.y1 + end.y), unclamped; label
\* box (10,100,40,110), terminator box (10,90,40,95) and deviation
\* ((120,0),(490,1)) give (130,95) and (500,111).
C6_BoxFormula ==
    pc = "selector_returned" =>
        LET label == ExpectedFragment(call.page, call.descriptors)
            terminator == ExpectedFragment(call.page, call.underlying_descriptors)
            start == call.value_deviations[1]
            end == call.value_deviations[2]
        IN  /\ ret.in_bbox = << label.x0 + start.x, terminator.y1 + start.y,
                                label.x0 + end.x, label.y1 + end.y >>
            /\ ( /\ label = Fragment(LernzieleKompetenzenSpaced, 10, 100, 40, 110)
                 /\ terminator = Fragment(Voraussetzungen, 10, 90, 40, 95)
                 /\ call.value_deviations = << Point(120, 0), Point(490, 1) >> )
               => ret.in_bbox = << 130, 95, 500, 111 >>

\* the documented example, and a box whose corners are inverted
C6_Witness ==
    /\ pc = "selector_returned"
    /\ ExpectedFragment(call.page, call.descriptors)
         = Fragment(LernzieleKompetenzenSpaced, 10, 100, 40, 110)
    /\ ExpectedFragment(call.page, call.underlying_descriptors)
         = Fragment(Voraussetzungen, 10, 90, 40, 95)
    /\ call.value_deviations = << Point(120, 0), Point(490, 1) >>
    /\ ret.in_bbox = << 130, 95, 500, 111 >>

C6_WitnessInverted ==
    /\ pc = "selector_returned"
    /\ ret.in_bbox[2] > ret.in_bbox[4]


(***************************************************************************)
(* extract_competencies, src/pdfextract/extract.py:173-238.                *)
(*                                                                         *)
(* Every query of an iteration is restricted to LTPage[page_index=i], so   *)
(* iteration i reads the fragments of page i and of no other page: they    *)
(* are drawn when the iteration begins and kept in `page`.  A page of the  *)
(* document is a selection of the rows of the handbook's table, each row a *)
(* label fragment in the left column and its value in the right column.    *)
(***************************************************************************)
Row(label, value, y0) ==
    << Fragment(label, 10, y0, 40, y0 + 10), Fragment(value, 130, y0, 300, y0 + 10) >>

TemplateRows ==
    << Row(Modulnummer, <<"M", "0", "1">>, 200),
       Row(Titel, <<"M", "a", "t", "h", "e">>, 180),
       Row(Leistungspunkte, <<"5">>, 160),
       Row(Credits, <<"5">>, 140),
       Row(LernzieleKompetenzenSpaced,
           <<"A", "b", " ", "c", "d", ".", " ", "E", "f", " ", "g", "h", ".">>, 120),
       Row(LernzieleKompetenzen, <<"I", "j", " ", "k", "l", ".">>, 100),
       Row(Voraussetzungen, <<"K", "e", "i", "n", "e", ".">>, 80),
       Row(Niveaustufe, <<"1">>, 60) >>

\* the rows with an index in S, top to bottom, from row k on
RECURSIVE RowsFrom(_, _)
RowsFrom(S, k) ==
    IF k > Len(TemplateRows) THEN << >>
    ELSE (IF k \in S THEN TemplateRows[k] ELSE << >>) \o RowsFrom(S, k + 1)

DocumentPages == { RowsFrom(S, 1) : S \in SUBSET (1..Len(TemplateRows)) }

\* the page number of the messages and of the record
PageNumberZeroBased(idx) == idx

\* i + 1 (lines 148, 156, 201, 226)
PageNumber(idx) == idx + 1

\* :in_bbox("x0, y0, x1, y1"): the fragment lies inside the box
InBBox(f, b) == f.x0 >= b[1] /\ f.y0 >= b[2] /\ f.x1 <= b[3] /\ f.y1 <= b[4]

\* the formatter of line 171, lambda match: match.text().strip(), on the
\* fragments of the page inside the box (text() joins them with a space)
MatchText(pg, b) ==
    LET match == SelectSeq(pg, LAMBDA f : InBBox(f, b))
    IN  Strip(JoinSpace([k \in 1..Len(match) |-> match[k].text]))

\* pdf.extract(selectors), line 223: a dict with one key per selector that
\* is neither with_parent nor with_formatter
PdfExtract(pg, sels) ==
    LET named == { k \in 1..Len(sels) : sels[k].key \notin {"with_parent", "with_formatter"} }
        keys == { sels[k].key : k \in named }
    IN  [key \in keys |->
            MatchText(pg, sels[CHOOSE k \in named : sels[k].key = key].in_bbox)]

\* lines 192-195
BaseSelectors(idx) ==
    << [key |-> "with_parent", page_index |-> idx],
       [key |-> "with_formatter", formatter |-> "text"] >>

SelectorOf(outcome) == [key |-> outcome.desc, in_bbox |-> outcome.in_bbox]

\* the four calls of lines 199, 206, 212 and 218 on page idx
FieldCall(pg, idx, key) ==
    CASE key = "id" ->
           get_selector_for_element_text(pg, idx, <<Modulnummer>>, <<Titel>>,
                                         << Point(120, 0), Point(490, 1) >>, "id")
      [] key = "name" ->
           get_selector_for_element_text(pg, idx, <<Titel>>, <<Leistungspunkte, Credits>>,
                                         << Point(120, 0), Point(490, 1) >>, "name")
      [] key = "competencies" ->
           get_selector_for_element_text(pg, idx,
                                         <<LernzieleKompetenzenSpaced, LernzieleKompetenzen>>,
                                         <<Voraussetzungen>>,
                                         << Point(120, 0), Point(490, 1) >>, "competencies")
      [] key = "requirements" ->
           get_selector_for_element_text(pg, idx, <<Voraussetzungen>>, <<Niveaustufe>>,
                                         << Point(120, 0), Point(490, 1) >>, "requirements")

\* the primary anchor resolved without its terminator "Titel"
PrimaryOutcomeLabelOnly ==
    get_selector_for_element_text(page, i, <<Modulnummer>>, <<Modulnummer>>,
                                  << Point(120, 0), Point(490, 1) >>, "id")

PrimaryOutcome == FieldCall(page, i, "id")
TitleOutcome == FieldCall(page, i, "name")
CompetenciesOutcome == FieldCall(page, i, "competencies")
RequirementsOutcome == FieldCall(page, i, "requirements")

\* the keys lines 229-234 read, in the order they are read
KeysRead == <<"id", "name", "competencies", "requirements">>

MissingKeys(page_results) ==
    { k \in 1..Len(KeysRead) : KeysRead[k] \notin DOMAIN page_results }

\* lines 226-234 on a dict that has every key read
Assemble(page_results, idx) ==
    [page |-> PageNumber(idx),
     id |-> Strip(page_results["id"]),
     name |-> Strip(page_results["name"]),
     competencies |-> split_sentences(page_results["competencies"]),
     requirements |-> split_sentences(page_results["requirements"])]

Init ==
    /\ pc = "for"
    /\ page_count \in 0..MaxPages
    /\ i = 0
    /\ page = << >>
    /\ selectors = << >>
    /\ results = << >>
    /\ stderr = << >>
    /\ IdleCall
    /\ IdleSplit

\* line 190: the next index of range(page_count - 1); lines 192-195
ForNext ==
    /\ pc = "for"
    /\ i < page_count - 1
    /\ \E pg \in DocumentPages : page' = pg
    /\ selectors' = BaseSelectors(i)
    /\ pc' = "primary"
    /\ UNCHANGED <<page_count, i, results, stderr, CallVars, SplitVars>>

\* line 190: the range is exhausted; line 238
ForExhausted ==
    /\ pc = "for"
    /\ ~(i < page_count - 1)
    /\ pc' = "returned"
    /\ UNCHANGED <<page_count, i, page, selectors, results, stderr, CallVars, SplitVars>>

\* lines 198-199
PrimaryFound ==
    /\ pc = "primary"
    /\ ~PrimaryOutcome.raised
    /\ selectors' = Append(selectors, SelectorOf(PrimaryOutcome))
    /\ pc' = "title"
    /\ UNCHANGED <<page_count, i, page, results, stderr, CallVars, SplitVars>>

\* lines 200-202
PrimarySkipped ==
    /\ pc = "primary"
    /\ PrimaryOutcome.raised
    /\ stderr' = Append(stderr, [msg |-> "No Modulnummer found, skipping",
                                 page |-> PageNumber(i)])
    /\ i' = i + 1
    /\ pc' = "for"
    /\ UNCHANGED <<page_count, page, selectors, results, CallVars, SplitVars>>

\* a secondary field: the selector is appended, or the ValueError is printed
FieldStep(outcome, label, next) ==
    /\ IF outcome.raised
       THEN /\ stderr' = Append(stderr, [msg |-> "Error parsing", field |-> label,
                                         err |-> outcome])
            /\ UNCHANGED selectors
       ELSE /\ selectors' = Append(selectors, SelectorOf(outcome))
            /\ UNCHANGED stderr
    /\ pc' = next
    /\ UNCHANGED <<page_count, i, page, results, CallVars, SplitVars>>

\* lines 205-208
TitleStep == pc = "title" /\ FieldStep(TitleOutcome, "Titel", "competencies")

\* lines 211-214
CompetenciesStep ==
    pc = "competencies" /\ FieldStep(CompetenciesOutcome, "Lernziele / Kompetenzen", "requirements")

\* lines 217-220
RequirementsStep ==
    pc = "requirements" /\ FieldStep(RequirementsOutcome, "Voraussetzungen", "extract")

\* lines 223-236 when every key read is in the dict
ExtractAppends ==
    /\ pc = "extract"
    /\ LET page_results == PdfExtract(page, selectors)
       IN  /\ MissingKeys(page_results) = {}
           /\ results' = Append(results, Assemble(page_results, i))
    /\ i' = i + 1
    /\ pc' = "for"
    /\ UNCHANGED <<page_count, page, selectors, stderr, CallVars, SplitVars>>

\* lines 229-234 when a key read is not in the dict: the KeyError is caught
\* nowhere and ends extract_competencies
ExtractRaisesKeyError ==
    /\ pc = "extract"
    /\ LET page_results == PdfExtract(page, selectors)
       IN  /\ MissingKeys(page_results) # {}
           /\ stderr' = Append(stderr, [msg |-> "KeyError",
                                        key |-> KeysRead[SetMin(MissingKeys(page_results))],
                                        page |-> PageNumber(i)])
    /\ pc' = "raised"
    /\ UNCHANGED <<page_count, i, page, selectors, results, CallVars, SplitVars>>

Next ==
    \/ ForNext
    \/ ForExhausted
    \/ PrimaryFound
    \/ PrimarySkipped
    \/ TitleStep
    \/ CompetenciesStep
    \/ RequirementsStep
    \/ ExtractAppends
    \/ ExtractRaisesKeyError

Spec == Init /\ [][Next]_vars


(***************************************************************************)
(* Claims about extract_competencies (checked under Spec).  In a state     *)
(* with pc = "for" or "returned" and i > 0, `page` holds the fragments of  *)
(* page i - 1, the page the loop has just finished.                        *)
(***************************************************************************)
RecordsOfPage(idx) == { k \in 1..Len(results) : results[k].page = idx + 1 }

SkipMessagesOfPage(idx) ==
    { k \in 1..Len(stderr) :
        stderr[k].msg = "No Modulnummer found, skipping" /\ stderr[k].page = idx + 1 }

PageFinished == pc \in {"for", "returned"} /\ i > 0

SecondaryKeys == {"name", "competencies", "requirements"}

OtherLabels ==
    { Titel, Leistungspunkte, Credits, LernzieleKompetenzenSpaced, LernzieleKompetenzen,
      Voraussetzungen, Niveaustufe }

AbsentOrEmpty(record, key) ==
    key \in DOMAIN record => record[key] \in { << >>, << << >> >> }

\* C1: the result has a record for a page if and only if a fragment of the
\* page contains "Modulnummer", whatever else is on the page.
C1_RecordIffModulnummer ==
    PageFinished =>
        (RecordsOfPage(i - 1) # {} <=> SomeFragmentContains(page, Modulnummer))

\* C2: on a page whose primary anchor resolved, a secondary label or
\* terminator that is not found leaves that field absent or empty, the other
\* fields are extracted as without the failure, the record is appended, and
\* the run goes on and returns normally: no exception escapes.
C2_SecondaryFailureIsContained ==
    /\ pc # "raised"
    /\ (PageFinished /\ ~FieldCall(page, i - 1, "id").raised) =>
          \E k \in RecordsOfPage(i - 1) :
             \A key \in SecondaryKeys :
                LET outcome == FieldCall(page, i - 1, key)
                IN  IF outcome.raised
                    THEN AbsentOrEmpty(results[k], key)
                    ELSE /\ key \in DOMAIN results[k]
                         /\ key = "name" =>
                              results[k][key] = MatchText(page, outcome.in_bbox)
                         /\ key # "name" =>
                              results[k][key] = split_sentences(MatchText(page, outcome.in_bbox))

\* C3: a page on which "Modulnummer" is the only label or terminator gets a
\* record with the id set and name, competencies and requirements absent or
\* empty.
C3_OnlyPrimaryGivesIdOnlyRecord ==
    ( /\ PageFinished
      /\ SomeFragmentContains(page, Modulnummer)
      /\ \A label \in OtherLabels : ~SomeFragmentContains(page, label) )
    => \E k \in RecordsOfPage(i - 1) :
          /\ "id" \in DOMAIN results[k]
          /\ \A key \in SecondaryKeys : AbsentOrEmpty(results[k], key)

\* C4: every page 0 .. page_count - 1 ends as exactly one of Skipped or
\* Built and the function then returns; no page is left unvisited or partial.
C4_EveryPageReachesOneOutcome ==
    /\ pc # "raised"
    /\ pc = "returned" =>
          \A idx \in 0..(page_count - 1) :
             Cardinality(RecordsOfPage(idx)) + Cardinality(SkipMessagesOfPage(idx)) = 1

C10_OrderedPages ==
    /\ \A j, k \in 1..Len(results) : j < k => results[j].page < results[k].page
    /\ \A k \in 1..Len(results) : results[k].page \in 1..page_count

C10_AppendOnly ==
    /\ Len(results') >= Len(results)
    /\ SubSeq(results', 1, Len(results)) = results
    /\ results' # results =>
         /\ Len(results') = Len(results) + 1
         /\ results'[Len(results')].page = i + 1
         /\ results'[Len(results')].id = MatchText(page, FieldCall(page, i, "id").in_bbox)

\* C10: at every point the result list has at most one record per page, in
\* strictly ascending page order; a record's page is the 0-based index of
\* the page it was built from plus one; an appended record is never changed
\* or removed afterwards.
C10_ResultsGrowInPageOrder == [](C10_OrderedPages) /\ [][C10_AppendOnly]_vars

\* the run has returned two records
C10_Witness == Len(results) >= 2 /\ pc = "returned"


HasModulnummerAndTitel(pg) ==
    SomeFragmentContains(pg, Modulnummer) /\ SomeFragmentContains(pg, Titel)

\* the page the loop has just finished ended as Skipped: one skip message
\* with its number, the last thing written, and no record
EndedAsSkipped ==
    /\ RecordsOfPage(i - 1) = {}
    /\ Cardinality(SkipMessagesOfPage(i - 1)) = 1
    /\ Len(stderr) \in SkipMessagesOfPage(i - 1)

BuildingRecord == pc \in {"title", "competencies", "requirements", "extract", "raised"}

=============================================================================
